---- MODULE Spec2Model ----
(***************************************************************************)
(* The order page of ToMyPizza (src/js/tasks.js): the TaskManager class,   *)
(* its in-memory collection `tasks`, the localStorage entry 'pizzaOrders', *)
(* and the handlers that mutate them.                                      *)
(*                                                                         *)
(* Time is counted in minutes.  A text value (a name, a description) is a  *)
(* sequence of chunks; the chunk " " is one whitespace character, every    *)
(* other chunk is a run of non-whitespace text.  A date string is a record *)
(* that keeps the wall-clock reading it prints and whether it carries the  *)
(* UTC designator, so that parsing it depends on the time zone.            *)
(***************************************************************************)
EXTENDS Integers, Sequences, FiniteSets, TLC

VARIABLES
    sessionA,       \* "closed" | "live" | "crashed": the page's TaskManager
    tasks,          \* this.tasks
    store,          \* localStorage entry 'pizzaOrders'
    currentFilter,  \* this.currentFilter
    currentSort,    \* this.currentSort
    now,            \* the clock: Date.now() / new Date()
    tz,             \* the browser's offset of local time from UTC, in minutes
    quotaFull,      \* localStorage.setItem throws (quota exceeded)
    notifications,  \* the alerts showNotification has put on the page
    isInvalid,      \* the fields of the order form whose classList holds 'is-invalid'
    taskDue,        \* the value setDefaultDueDate gave #task-due
    tasksList,      \* what #tasks-list shows
    orderCount,     \* what #order-count shows
    sessionB,       \* a second tab on the order page: its TaskManager
    tasksB,         \* this.tasks of the second tab
    quotePhase,     \* the quote widget: "closed" | "headers" | "body" | "idle"
    quoteElapsed,   \* seconds since the fetch in flight was started
    quoteShown,     \* what #quote-text and #quote-author show
    quoteButton,    \* #new-quote: "unbound" | "enabled" | "disabled"
    quoteToast,     \* a 'New quote loaded!' toast is on the page
    themePage,      \* per page that runs initializeDarkMode: "closed" | "open"
    savedTheme,     \* localStorage entry 'tomypizza-theme'
    prefersDark,    \* matchMedia('(prefers-color-scheme: dark)').matches
    darkMode,       \* per page: document.body.classList holds 'dark-mode'
    dataTheme,      \* per page: the attribute data-theme of the document element
    toggleChecked,  \* per page: #darkModeToggle.checked
    themeToast,     \* per page: the toast shown last for a change of the switch
    contactPage,    \* the contact page: "closed" | "idle" | "sending"
    contactRequired,\* the inputs of #contact-form that carry the attribute required
    contactValues,  \* the values of the inputs of #contact-form
    contactInvalid, \* the inputs of #contact-form whose classList holds 'is-invalid'
    validatedData,  \* history: the values validateForm read when it last accepted
    confirmation,   \* the details the confirmation modal shows, when it is shown
    contactNotice   \* the message showFormError or showToast has shown last

vars == <<sessionA, tasks, store, currentFilter, currentSort, now, tz, quotaFull,
          notifications, isInvalid, taskDue, tasksList, orderCount, sessionB, tasksB,
          quotePhase, quoteElapsed, quoteShown, quoteButton, quoteToast,
          themePage, savedTheme, prefersDark, darkMode, dataTheme, toggleChecked,
          themeToast, contactPage, contactRequired, contactValues, contactInvalid,
          validatedData, confirmation, contactNotice>>

-----------------------------------------------------------------------------
(* Bounds of the model *)

Epoch == 2000          \* the clock reading of the first state
MaxElapsed == 61       \* the clock stops advancing this long after Epoch
MaxAdded == 2          \* records made by addTask that the collection holds at once
MaxAddedQuota == 1     \* the same, per tab, where the storage fails or two tabs are open

(* Program constants *)

GracePeriod == 60      \* updateTimers: overdueTime > 60
QuoteTimeoutSeconds == 5   \* fetchMotivationalQuote: setTimeout(..., 5000)

\* The text inputs of #contact-form that getFormData reads.
ContactFields == {"name", "email", "subject", "message"}

\* A new document's contact form: every input empty, the newsletter box
\* unchecked.
ContactDefaults ==
    [name |-> <<>>, email |-> <<>>, subject |-> <<>>, message |-> <<>>,
     newsletter |-> FALSE]

\* The confirmation modal while it is not shown.
Hidden == [kind |-> "hidden"]

\* The pages open at once that load contact.js: the home page, with the quote
\* widget, and the contact page, with the contact form.
ThemePages == {"index", "contact"}

\* The offset of the page's time zone (Athens, standard time).
TZOffsets == {120}
TickSteps == {GracePeriod + 1}

-----------------------------------------------------------------------------
(* JavaScript values *)

Undefined == [kind |-> "undefined"]
Null == [kind |-> "null"]
WS == " "

\* An array value, as against undefined.
Array(items) == [kind |-> "array", items |-> items]

toISOString(t) == [kind |-> "iso", wall |-> t]
DateTimeLocal(w) == [kind |-> "local", wall |-> w]
EmptyValue == [kind |-> "empty"]

\* A string value that is neither a date nor the text of an array.
DOMString(text) == [kind |-> "text", text |-> text]

\* new Date(string).getTime(): an ISO string with Z is UTC, a datetime-local
\* string without designator is local time.  Not defined on the empty string
\* (Invalid Date); callers test for it first.
DateParse(s, offset) ==
    IF s.kind = "iso" THEN s.wall ELSE s.wall - offset

RECURSIVE TrimStart(_)
TrimStart(s) ==
    IF s # <<>> /\ Head(s) = WS THEN TrimStart(Tail(s)) ELSE s

RECURSIVE TrimEnd(_)
TrimEnd(s) ==
    IF s # <<>> /\ s[Len(s)] = WS THEN TrimEnd(SubSeq(s, 1, Len(s) - 1)) ELSE s

\* String.prototype.trim
Trim(s) == TrimEnd(TrimStart(s))

-----------------------------------------------------------------------------
(* Serialization *)

Keys == {"id", "name", "description", "due", "priority", "status",
         "created", "completedAt", "location"}

\* The members some record leaves undefined; every other member is a number
\* or a string in every record the code builds.
OptionalKeys == {"completedAt"}

\* The members of an object that JSON.stringify writes: those not undefined.
OwnDefined(object) ==
    Keys \ {m \in OptionalKeys : object[m] = Undefined}

\* A JSON.stringify that writes an undefined member as null instead of
\* leaving it out.
JSONstringifyNullMembers(value) ==
    IF value.kind = "undefined" THEN Undefined
    ELSE [kind |-> "json",
          items |-> [i \in 1..Len(value.items) |->
                       [k \in Keys |-> IF k \in OwnDefined(value.items[i])
                                       THEN value.items[i][k] ELSE Null]]]

\* JSON.stringify: undefined for undefined; for an array of objects the text
\* of the array, each object with the members whose value is not undefined.
JSONstringify(value) ==
    IF value.kind = "undefined" THEN Undefined
    ELSE [kind |-> "json",
          items |-> [i \in 1..Len(value.items) |->
                       [k \in OwnDefined(value.items[i]) |-> value.items[i][k]]]]

\* The DOMString conversion localStorage.setItem applies to its value.
ToDOMString(value) ==
    IF value.kind = "undefined" THEN [kind |-> "text", text |-> "undefined"] ELSE value

\* JSON.parse: throws SyntaxError on a text that is not JSON.
JSONparse(text) ==
    IF text.kind = "json"
    THEN [threw |-> FALSE,
          value |-> Array([i \in 1..Len(text.items) |->
                             [k \in Keys |-> IF k \in DOMAIN text.items[i]
                                             THEN text.items[i][k] ELSE Undefined]])]
    ELSE [threw |-> TRUE, value |-> Undefined]

\* A saveTasks that merges: it keeps the stored records whose id the
\* collection does not hold.
saveTasksMerges(thisTasks, st, full) ==
    IF full THEN st
    ELSE IF thisTasks.kind = "array" /\ st.kind = "json"
         THEN LET stored == JSONparse(st).value.items
                  mine == {thisTasks.items[i].id : i \in 1..Len(thisTasks.items)}
              IN  ToDOMString(JSONstringify(Array(
                      thisTasks.items \o SelectSeq(stored, LAMBDA task : task.id \notin mine))))
         ELSE ToDOMString(JSONstringify(thisTasks))

\* A saveTasks that keeps the stored text when the collection has shrunk.
saveTasksNeverShrinks(thisTasks, st, full) ==
    IF full THEN st
    ELSE IF /\ thisTasks.kind = "array" /\ st.kind = "json"
            /\ Len(thisTasks.items) < Len(st.items)
         THEN st
         ELSE ToDOMString(JSONstringify(thisTasks))

\* saveTasks: setItem of the serialized this.tasks; a throw is caught.
saveTasks(thisTasks, st, full) ==
    IF full THEN st ELSE ToDOMString(JSONstringify(thisTasks))

-----------------------------------------------------------------------------
(* Demo data *)

DemoOrder(id, name, description, due, priority, status, created, completedAt, location) ==
    [id |-> id, name |-> <<name>>, description |-> <<description>>,
     due |-> toISOString(due), priority |-> priority, status |-> status,
     created |-> toISOString(created),
     completedAt |-> completedAt, location |-> location]

createDemoOrders(t) ==
    << DemoOrder(1001, "Large Pepperoni Pizza",
                 "Extra cheese, double pepperoni, well-done crust",
                 t + 15, "high", "pending", t - 5, Undefined, "Aghia Paraskevi"),
       DemoOrder(1002, "Family Size Margherita",
                 "Fresh basil, extra mozzarella, light sauce",
                 t + 25, "medium", "pending", t - 10, Undefined, "Chalandri"),
       DemoOrder(1003, "Medium BBQ Chicken Pizza",
                 "No onions, extra BBQ sauce, stuffed crust",
                 t + 35, "low", "pending", t - 15, Undefined, "Marousi"),
       DemoOrder(1004, "2x Veggie Supreme Pizzas",
                 "One with gluten-free crust, extra vegetables",
                 t - 10, "medium", "pending", t - 45, Undefined, "Kifisia"),
       DemoOrder(1005, "Hawaiian Pizza",
                 "Extra ham, light cheese, pineapple on half",
                 t - 30, "high", "completed", t - 60, toISOString(t - 25), "Nea Smyrni"),
       DemoOrder(1006, "Meat Lovers Pizza",
                 "All meats, stuffed crust, extra sauce",
                 t - 45, "high", "completed", t - 90, toISOString(t - 40), "Aghia Paraskevi"),
       DemoOrder(1007, "Four Cheese Pizza",
                 "Add mushrooms and black olives",
                 t + 20, "medium", "pending", t - 8, Undefined, "Chalandri"),
       DemoOrder(1008, "Greek Style Pizza",
                 "Feta cheese, Kalamata olives, oregano",
                 t + 40, "low", "pending", t - 3, Undefined, "Marousi") >>

-----------------------------------------------------------------------------
(* Construction *)

\* A constructor that also seeds the demo orders when the stored array is empty.
TaskManagerConstructorSeedsEmpty(storedOrders, t, full) ==
    IF storedOrders # Null /\ JSONparse(storedOrders).threw
    THEN [outcome |-> "threw", tasks |-> Undefined, store |-> storedOrders]
    ELSE IF storedOrders # Null /\ JSONparse(storedOrders).value.items # <<>>
         THEN [outcome |-> "parsed", tasks |-> JSONparse(storedOrders).value.items,
               store |-> storedOrders]
         ELSE [outcome |-> "seeded", tasks |-> createDemoOrders(t),
               store |-> saveTasks(Undefined, storedOrders, full)]

\* new TaskManager(): the stored text, when truthy, is parsed; otherwise
\* createDemoOrders runs, whose saveTasks call reads this.tasks before the
\* constructor has assigned it.
TaskManagerConstructor(storedOrders, t, full) ==
    IF storedOrders # Null
    THEN LET parsed == JSONparse(storedOrders)
         IN  IF parsed.threw
             THEN [outcome |-> "threw", tasks |-> Undefined, store |-> storedOrders]
             ELSE [outcome |-> "parsed", tasks |-> parsed.value.items,
                   store |-> storedOrders]
    ELSE [outcome |-> "seeded", tasks |-> createDemoOrders(t),
          store |-> saveTasks(Undefined, storedOrders, full)]

-----------------------------------------------------------------------------
(* Derived views *)

\* A filterTasks without the case of the completed filter.
filterTasksNoCompletedCase(ts, filter) ==
    CASE filter = "pending" -> SelectSeq(ts, LAMBDA task : task.status = "pending")
      [] OTHER -> ts

\* filterTasks
filterTasks(ts, filter) ==
    CASE filter = "pending" -> SelectSeq(ts, LAMBDA task : task.status = "pending")
      [] filter = "completed" -> SelectSeq(ts, LAMBDA task : task.status = "completed")
      [] OTHER -> ts

\* The collation order of the text chunks the model uses.
Collation ==
    << " ", "2x Veggie Supreme Pizzas", "Calzone", "Family Size Margherita",
       "Four Cheese Pizza", "Greek Style Pizza", "Hawaiian Pizza",
       "Large Pepperoni Pizza", "Meat Lovers Pizza", "Medium BBQ Chicken Pizza",
       "Pizza", "Special" >>

Rank(chunk) == CHOOSE i \in 1..Len(Collation) : Collation[i] = chunk

\* a.localeCompare(b): negative, zero or positive
RECURSIVE localeCompare(_, _)
localeCompare(a, b) ==
    CASE a = <<>> /\ b = <<>> -> 0
      [] a = <<>> -> -1
      [] b = <<>> -> 1
      [] OTHER -> IF Rank(Head(a)) # Rank(Head(b))
                  THEN Rank(Head(a)) - Rank(Head(b))
                  ELSE localeCompare(Tail(a), Tail(b))

\* A priorityOrder that ranks the priorities by their names.
priorityOrderByName(priority) ==
    CASE priority = "high" -> 1
      [] priority = "low" -> 2
      [] OTHER -> 3

priorityOrder(priority) ==
    CASE priority = "high" -> 3
      [] priority = "medium" -> 2
      [] OTHER -> 1

\* A comparator that compares the due texts as printed, without parsing them
\* to instants.
compareTasksByWall(a, b, sortKey, offset) ==
    CASE sortKey = "name" -> localeCompare(a.name, b.name)
      [] sortKey = "priority" -> priorityOrder(b.priority) - priorityOrder(a.priority)
      [] OTHER -> a.due.wall - b.due.wall

\* The comparator sortTasks hands to Array.prototype.sort.
compareTasks(a, b, sortKey, offset) ==
    CASE sortKey = "name" -> localeCompare(a.name, b.name)
      [] sortKey = "priority" -> priorityOrder(b.priority) - priorityOrder(a.priority)
      [] OTHER -> DateParse(a.due, offset) - DateParse(b.due, offset)

\* An insertion that puts an element before the elements it compares equal to.
RECURSIVE InsertSortedUnstable(_, _, _, _)
InsertSortedUnstable(sorted, x, sortKey, offset) ==
    IF sorted = <<>> THEN <<x>>
    ELSE IF compareTasks(sorted[Len(sorted)], x, sortKey, offset) < 0
         THEN Append(sorted, x)
         ELSE Append(InsertSortedUnstable(SubSeq(sorted, 1, Len(sorted) - 1), x, sortKey,
                                          offset),
                     sorted[Len(sorted)])

\* Array.prototype.sort is stable: an element goes after every element that
\* does not compare greater than it.
RECURSIVE InsertSorted(_, _, _, _)
InsertSorted(sorted, x, sortKey, offset) ==
    IF sorted = <<>> THEN <<x>>
    ELSE IF compareTasks(sorted[Len(sorted)], x, sortKey, offset) <= 0
         THEN Append(sorted, x)
         ELSE Append(InsertSorted(SubSeq(sorted, 1, Len(sorted) - 1), x, sortKey, offset),
                     sorted[Len(sorted)])

\* The one element of a singleton set; binding a value through a set makes
\* TLC compute it once.
The(S) == CHOOSE x \in S : TRUE

RECURSIVE SortFrom(_, _, _, _)
SortFrom(sorted, rest, sortKey, offset) ==
    IF rest = <<>> THEN sorted
    ELSE The({SortFrom(next, tail, sortKey, offset) :
                next \in {InsertSorted(sorted, Head(rest), sortKey, offset)},
                tail \in {Tail(rest)}})

\* sortTasks: a sorted copy
sortTasks(ts, sortKey, offset) == SortFrom(<<>>, ts, sortKey, offset)

\* What an element of the page holds before any script has written to it.
Markup == [kind |-> "markup"]

\* The one row showEmptyState puts into #tasks-list.
EmptyState == [kind |-> "empty-state"]

\* createTaskRow: of the row of a record, the data-id, the name and the
\* status badge.
createTaskRow(task) == [id |-> task.id, name |-> task.name, status |-> task.status]

\* The rows loadTasks puts into #tasks-list, one per record.
TaskRows(ts) == [kind |-> "rows", rows |-> [i \in 1..Len(ts) |-> createTaskRow(ts[i])]]

\* The text `${n} orders`
OrdersLabel(n) == [kind |-> "orders", count |-> n]

\* loadTasks: what #tasks-list holds after the call
loadTasks(ts, filter, sortKey, offset) ==
    IF Len(ts) = 0 THEN EmptyState
    ELSE TaskRows(sortTasks(filterTasks(ts, filter), sortKey, offset))

\* loadTasks: what #order-count holds after the call that left `shown` in
\* #tasks-list, the label holding `label` before it.  The call that shows
\* the empty state returns before it writes the label.
orderCountAfter(shown, label) ==
    IF shown.kind = "rows" THEN OrdersLabel(Len(shown.rows)) ELSE label

-----------------------------------------------------------------------------
(* CRUD operations on the collection *)

locations ==
    << "Aghia Paraskevi", "Chalandri", "Marousi", "Kifisia", "Nea Smyrni",
       "Glyfada", "Piraeus", "Athens Center" >>

\* getRandomAthensLocation, for a value r of Math.floor(Math.random() * 8)
getRandomAthensLocation(r) == locations[r + 1]

\* An addTask record that takes the name and the description as typed.
newTaskUntrimmed(taskData, t, location) ==
    [id |-> t,
     name |-> taskData.name,
     description |-> taskData.description,
     due |-> taskData.due,
     priority |-> IF taskData.priority = "" THEN "medium" ELSE taskData.priority,
     status |-> "pending",
     created |-> toISOString(t),
     completedAt |-> Undefined,
     location |-> location]

\* The record addTask builds from the form data at clock reading t.
newTask(taskData, t, location) ==
    [id |-> t,
     name |-> Trim(taskData.name),
     description |-> Trim(taskData.description),
     due |-> taskData.due,
     priority |-> IF taskData.priority = "" THEN "medium" ELSE taskData.priority,
     status |-> "pending",
     created |-> toISOString(t),
     completedAt |-> Undefined,
     location |-> location]

\* addTask: push
addTask(ts, taskData, t, location) == Append(ts, newTask(taskData, t, location))

\* findIndex / find by id: the first position holding the id, 0 when none does.
FindIndex(ts, taskId) ==
    IF \E i \in 1..Len(ts) : ts[i].id = taskId
    THEN CHOOSE i \in 1..Len(ts) :
            /\ ts[i].id = taskId
            /\ \A j \in 1..(i - 1) : ts[j].id # taskId
    ELSE 0

\* A merge that takes the description from the update only.
MergeDropsDescription(task, updatedData) ==
    [k \in Keys |-> IF k \in DOMAIN updatedData THEN updatedData[k]
                    ELSE IF k = "description" THEN <<>> ELSE task[k]]

\* { ...task, ...updatedData }
Merge(task, updatedData) ==
    [k \in Keys |-> IF k \in DOMAIN updatedData THEN updatedData[k] ELSE task[k]]

\* editTask: the collection after the call
editTask(ts, taskId, updatedData) ==
    LET taskIndex == FindIndex(ts, taskId)
    IN  IF taskIndex # 0
        THEN [ts EXCEPT ![taskIndex] = Merge(ts[taskIndex], updatedData)]
        ELSE ts

\* deleteTask, confirmed: the collection after the filter
deleteTask(ts, taskId) == SelectSeq(ts, LAMBDA task : task.id # taskId)

\* markAsCompleted acts when the id is found and the found record is not completed.
MarkApplies(ts, taskId) ==
    LET i == FindIndex(ts, taskId)
    IN  i # 0 /\ ts[i].status # "completed"

\* A markAsCompleted that returns a completed record to pending.
markAsCompletedToggles(ts, taskId, t) ==
    LET i == FindIndex(ts, taskId)
    IN  IF i = 0 THEN ts
        ELSE IF ts[i].status # "completed"
             THEN [ts EXCEPT ![i].status = "completed", ![i].completedAt = toISOString(t)]
             ELSE [ts EXCEPT ![i].status = "pending", ![i].completedAt = Undefined]

\* A markAsCompleted that sets the status and leaves completedAt alone.
markAsCompletedNoStamp(ts, taskId, t) ==
    LET i == FindIndex(ts, taskId)
    IN  IF i # 0 /\ ts[i].status # "completed"
        THEN [ts EXCEPT ![i].status = "completed"]
        ELSE ts

\* A markAsCompleted without the test of the status.
markAsCompletedRestamp(ts, taskId, t) ==
    LET i == FindIndex(ts, taskId)
    IN  IF i # 0
        THEN [ts EXCEPT ![i].status = "completed", ![i].completedAt = toISOString(t)]
        ELSE ts

\* markAsCompleted: the collection after the call at clock reading t
markAsCompleted(ts, taskId, t) ==
    LET i == FindIndex(ts, taskId)
    IN  IF i # 0 /\ ts[i].status # "completed"
        THEN [ts EXCEPT ![i].status = "completed", ![i].completedAt = toISOString(t)]
        ELSE ts

\* The test updateTimers makes on one record.
SweepDue(task, t, offset) ==
    /\ task.status = "pending"
    /\ DateParse(task.due, offset) - t <= 0
    /\ t - DateParse(task.due, offset) > GracePeriod

\* updateTimers: forEach over the collection, from position i on.
RECURSIVE SweepFrom(_, _, _, _)
SweepFrom(ts, i, t, offset) ==
    IF i > Len(ts) THEN ts
    ELSE IF SweepDue(ts[i], t, offset)
         THEN SweepFrom(markAsCompleted(ts, ts[i].id, t), i + 1, t, offset)
         ELSE SweepFrom(ts, i + 1, t, offset)

updateTimers(ts, t, offset) == SweepFrom(ts, 1, t, offset)

\* needsRefresh at the end of the forEach: some record passed the test.  The
\* first that passes it does so on the collection as the sweep found it.
needsRefresh(ts, t, offset) == \E i \in 1..Len(ts) : SweepDue(ts[i], t, offset)

-----------------------------------------------------------------------------
(* Form validation *)

\* The fields of the order form that carry the required attribute.
RequiredFields == {"task-name", "task-due"}

FieldType(field) == IF field = "task-due" THEN "datetime-local" ELSE "text"

\* A test of the field value that does not trim it.
IsBlankUntrimmed(field, value) ==
    IF FieldType(field) = "datetime-local" THEN value.kind = "empty"
    ELSE value = <<>>

\* !field.value.trim()
IsBlank(field, value) ==
    IF FieldType(field) = "datetime-local" THEN value.kind = "empty"
    ELSE Trim(value) = <<>>

\* validateField
validateField(field, value, t, offset) ==
    IF field \in RequiredFields /\ IsBlank(field, value) THEN FALSE
    ELSE IF /\ FieldType(field) = "datetime-local"
            /\ value.kind # "empty"
            /\ DateParse(value, offset) < t
         THEN FALSE
         ELSE TRUE

\* getFormData reads the four inputs; FieldValue names the input of each.
FieldValue(formData, field) ==
    IF field = "task-name" THEN formData.name ELSE formData.due

\* validateOrderForm: every required field validates
validateOrderForm(formData, t, offset) ==
    \A field \in RequiredFields :
        validateField(field, FieldValue(formData, field), t, offset)

\* The fields validateOrderForm leaves with the class 'is-invalid': validateField
\* removes the class from a field and adds it again when the field fails.
MarkInvalid(marked, formData, t, offset) ==
    (marked \ RequiredFields)
        \cup {field \in RequiredFields :
                 ~validateField(field, FieldValue(formData, field), t, offset)}

\* setDefaultDueDate at clock reading t: the first 16 characters of the ISO
\* text of t plus 30 minutes, a reading of the UTC wall clock without designator.
DefaultDueMinutes == 30
setDefaultDueDate(t) == DateTimeLocal(toISOString(t + DefaultDueMinutes).wall)

\* The text the page shows in the quote widget before any update.
Placeholder == [content |-> "placeholder", author |-> "placeholder"]

TypeOK ==
    /\ sessionA \in {"closed", "live", "crashed"}
    /\ currentFilter \in {"all", "pending", "completed"}
    /\ currentSort \in {"due", "name", "priority"}
    /\ now \in Epoch..(Epoch + MaxElapsed)
    /\ tz \in TZOffsets
    /\ quotaFull \in BOOLEAN
    /\ isInvalid \subseteq {"task-name", "task-due"}
    /\ taskDue.kind \in {"empty", "local"}
    /\ tasksList.kind \in {"markup", "empty-state", "rows"}
    /\ orderCount.kind \in {"markup", "orders"}
    /\ sessionB \in {"closed", "live", "crashed"}
    /\ quotePhase \in {"closed", "headers", "body", "idle"}
    /\ quoteElapsed \in 0..QuoteTimeoutSeconds
    /\ quoteButton \in {"unbound", "enabled", "disabled"}
    /\ quoteToast \in BOOLEAN
    /\ themePage \in [ThemePages -> {"closed", "open"}]
    /\ savedTheme \in {Null, DOMString("dark"), DOMString("light")}
    /\ prefersDark \in BOOLEAN
    /\ darkMode \in [ThemePages -> BOOLEAN]
    /\ dataTheme \in [ThemePages -> {"unset", "dark", "light"}]
    /\ toggleChecked \in [ThemePages -> BOOLEAN]
    /\ themeToast \in [ThemePages -> {"none", "Dark mode enabled", "Light mode enabled",
                                       "An error occurred"}]
    /\ contactPage \in {"closed", "idle", "sending"}
    /\ contactRequired \subseteq ContactFields
    /\ DOMAIN contactValues = ContactFields \cup {"newsletter"}
    /\ contactInvalid \subseteq ContactFields
    /\ validatedData = Undefined \/ DOMAIN validatedData = DOMAIN contactValues
    /\ confirmation.kind \in {"hidden", "details"}
    /\ contactNotice \in {"none", "Please fill in all required fields correctly.",
                          "Message sent successfully!"}

Init ==
    /\ sessionA = "closed"
    /\ tasks = Undefined
    /\ store = Null
    /\ currentFilter = "all"
    /\ currentSort = "due"
    /\ now = Epoch
    /\ tz \in TZOffsets
    /\ quotaFull = FALSE
    /\ notifications = <<>>
    /\ isInvalid = {}
    /\ taskDue = EmptyValue
    /\ tasksList = Markup
    /\ orderCount = Markup
    /\ sessionB = "closed"
    /\ tasksB = Undefined
    /\ quotePhase = "closed"
    /\ quoteElapsed = 0
    /\ quoteShown = Placeholder
    /\ quoteButton = "unbound"
    /\ quoteToast = FALSE
    /\ themePage = [page \in ThemePages |-> "closed"]
    /\ savedTheme = Null
    /\ prefersDark = FALSE
    /\ darkMode = [page \in ThemePages |-> FALSE]
    /\ dataTheme = [page \in ThemePages |-> "unset"]
    /\ toggleChecked = [page \in ThemePages |-> FALSE]
    /\ themeToast = [page \in ThemePages |-> "none"]
    /\ contactPage = "closed"
    /\ contactRequired = {}
    /\ contactValues = ContactDefaults
    /\ contactInvalid = {}
    /\ validatedData = Undefined
    /\ confirmation = Hidden
    /\ contactNotice = "none"

-----------------------------------------------------------------------------
(* User input *)

\* What the user types into the order form: the due value is empty or lies
\* the given number of minutes after the moment of submission.
Drafts ==
    { [name |-> <<"Pizza">>, description |-> <<>>, dueIn |-> <<1>>, priority |-> "high"],
      [name |-> <<WS, "Calzone", WS>>, description |-> <<WS, "hot">>, dueIn |-> <<0>>,
       priority |-> ""],
      [name |-> <<WS>>, description |-> <<>>, dueIn |-> <<30>>, priority |-> "low"],
      [name |-> <<>>, description |-> <<"hot">>, dueIn |-> <<30>>, priority |-> "low"],
      [name |-> <<"Pizza">>, description |-> <<WS>>, dueIn |-> <<-1>>, priority |-> "low"],
      [name |-> <<"Pizza">>, description |-> <<>>, dueIn |-> <<>>, priority |-> "medium"] }

\* The drafts of Drafts that pass validateOrderForm whenever they are submitted.
AcceptedDrafts == {draft \in Drafts : Trim(draft.name) # <<>> /\ draft.dueIn \in {<<0>>, <<1>>}}

\* The values Math.floor(Math.random() * 8) takes in the model.
RandomIndexes == {5}

\* The rows whose buttons the user presses: the rows of the orders made by
\* addTask, and an id no record has (a call of the method with a stale id).
\* The demo rows change by the sweep and by clear-all only.
AbsentId == Epoch - 1
TargetIds(ts) ==
    {ts[i].id : i \in {j \in 1..Len(ts) : ts[j].id >= Epoch}} \cup {AbsentId}

\* loadData of the analytics page: JSON.parse of the stored text, or the
\* sample data when the parse gives a falsy value (null, for no entry).
AnalyticsLoadData(storedOrders) ==
    IF storedOrders = Null THEN [outcome |-> "sample", tasks |-> Undefined]
    ELSE LET parsed == JSONparse(storedOrders)
         IN  IF parsed.threw THEN [outcome |-> "threw", tasks |-> Undefined]
             ELSE [outcome |-> "parsed", tasks |-> parsed.value.items]

\* What the user answers to the edit prompt, besides cancelling it or
\* leaving the proposed name as it is.
EditAnswers == { <<>>, <<WS>>, <<WS, "Special", WS>> }

AddedCount(ts) == Cardinality({i \in 1..Len(ts) : ts[i].id >= Epoch})

\* getFormData at clock reading t
getFormData(draft, t, offset) ==
    [name |-> draft.name,
     description |-> draft.description,
     due |-> IF draft.dueIn = <<>> THEN EmptyValue
             ELSE DateTimeLocal(t + offset + draft.dueIn[1]),
     priority |-> draft.priority]

\* showNotification(message, type): the alert appended to the page.  `about`
\* is the order name the message quotes, or the number it quotes, if any.
Notification(type, message, about) ==
    [type |-> type, message |-> message, about |-> about]

\* A saveTasks whose catch shows nothing.
SaveNotesSilent(full) == <<>>

\* The alert saveTasks shows when setItem throws.
SaveNotes(full) ==
    IF full THEN <<Notification("danger", "Error saving orders", <<>>)>> ELSE <<>>

\* showWelcomeNotification, one second after construction
WelcomeNotes(ts) ==
    IF Len(ts) > 0
    THEN <<Notification("info", "Welcome! demo orders loaded", <<Len(ts)>>)>>
    ELSE <<>>

\* The alerts updateTimers leaves: one per record it completes, after the
\* alert of that record's save.
RECURSIVE SweepNotes(_, _, _, _, _)
SweepNotes(ts, i, t, offset, full) ==
    IF i > Len(ts) THEN <<>>
    ELSE IF SweepDue(ts[i], t, offset) /\ MarkApplies(ts, ts[i].id)
         THEN SaveNotes(full)
              \o <<Notification("success", "Order delivered",
                                ts[FindIndex(ts, ts[i].id)].name)>>
              \o SweepNotes(markAsCompleted(ts, ts[i].id, t), i + 1, t, offset, full)
         ELSE SweepNotes(ts, i + 1, t, offset, full)

-----------------------------------------------------------------------------
(* Handlers.  The alerts a handler shows replace those on the page: alerts   *)
(* expire after five seconds and handlers are taken to be further apart.    *)

viewVars == <<currentFilter, currentSort>>
formVars == <<isInvalid, taskDue>>
pageVars == <<tasksList, orderCount>>
tabB == <<sessionB, tasksB>>
quoteVars == <<quotePhase, quoteElapsed, quoteShown, quoteButton, quoteToast>>
themeVars == <<themePage, savedTheme, prefersDark, darkMode, dataTheme, toggleChecked,
               themeToast>>
contactVars == <<contactPage, contactRequired, contactValues, contactInvalid,
                 validatedData, confirmation, contactNotice>>
sitePages == <<themeVars, contactVars>>
otherPages == <<tabB, quoteVars, sitePages>>
orderPage == <<sessionA, tasks, currentFilter, currentSort, notifications, formVars, pageVars>>
envVars == <<now, tz, quotaFull>>

\* The loadTasks call of a handler: the page shows the view of ts.
Rendered(ts, filter, sortKey) ==
    /\ tasksList' = loadTasks(ts, filter, sortKey, tz)
    /\ orderCount' = orderCountAfter(tasksList', orderCount)

\* DOMContentLoaded on the order page: a fresh page session.
PageLoad ==
    LET made == TaskManagerConstructor(store, now, quotaFull)
    IN  /\ sessionA' = IF made.outcome = "threw" THEN "crashed" ELSE "live"
        /\ tasks' = made.tasks
        /\ store' = made.store
        /\ currentFilter' = "all"
        /\ currentSort' = "due"
        /\ notifications' =
              CASE made.outcome = "threw" -> <<>>
                [] made.outcome = "seeded" -> SaveNotes(quotaFull) \o WelcomeNotes(made.tasks)
                [] OTHER -> WelcomeNotes(made.tasks)
        /\ isInvalid' = {}
        /\ taskDue' = IF made.outcome = "threw" THEN EmptyValue ELSE setDefaultDueDate(now)
        /\ IF made.outcome = "threw"
           THEN tasksList' = Markup /\ orderCount' = Markup
           ELSE /\ tasksList' = loadTasks(made.tasks, "all", "due", tz)
                /\ orderCount' = orderCountAfter(tasksList', Markup)
        /\ UNCHANGED <<envVars, otherPages>>

\* submit of the order form whose inputs hold formData; r is the random location
SubmitForm(formData, r) ==
    /\ UNCHANGED <<sessionA, viewVars, envVars, otherPages>>
    /\ isInvalid' = MarkInvalid(isInvalid, formData, now, tz)
    /\ IF validateOrderForm(formData, now, tz)
       THEN /\ AddedCount(tasks) < MaxAdded
            /\ tasks' = addTask(tasks, formData, now, getRandomAthensLocation(r))
            /\ store' = saveTasks(Array(tasks'), store, quotaFull)
            /\ Rendered(tasks', currentFilter, currentSort)
            /\ notifications' = SaveNotes(quotaFull)
                  \o <<Notification("success", "Order added", Trim(formData.name))>>
            /\ taskDue' = setDefaultDueDate(now)
       ELSE UNCHANGED <<tasks, store, notifications, pageVars, taskDue>>

\* submit of the order form filled with `draft`
SubmitDraft(draft, r) == SubmitForm(getFormData(draft, now, tz), r)

Submit ==
    /\ sessionA = "live"
    /\ \E draft \in Drafts, r \in RandomIndexes : SubmitDraft(draft, r)

\* submit of the order form in which the user has typed a name and a
\* priority and has left the due input as setDefaultDueDate filled it
DefaultDueDraft ==
    [name |-> <<"Pizza">>, description |-> <<>>, due |-> taskDue, priority |-> "high"]

SubmitDefault ==
    /\ sessionA = "live"
    /\ \E r \in RandomIndexes : SubmitForm(DefaultDueDraft, r)

\* The texts the prompt of handleEdit can return for the row of taskId: the
\* answers the user types and the proposed name left as it is.
PromptAnswers(ts, taskId) ==
    EditAnswers \cup (IF FindIndex(ts, taskId) # 0
                      THEN {ts[FindIndex(ts, taskId)].name} ELSE {})

\* A handleEdit that does not test the trimmed answer.
HandleEditIdKeepsBlank(taskId, cancelled, newName) ==
    /\ UNCHANGED <<sessionA, viewVars, envVars, formVars, otherPages>>
    /\ LET i == FindIndex(tasks, taskId)
       IN  IF i # 0 /\ ~cancelled /\ newName # <<>> /\ newName # tasks[i].name
           THEN /\ tasks' = editTask(tasks, taskId, [name |-> Trim(newName)])
                /\ store' = saveTasks(Array(tasks'), store, quotaFull)
                /\ Rendered(tasks', currentFilter, currentSort)
                /\ notifications' = SaveNotes(quotaFull)
                      \o <<Notification("info", "Order updated successfully", <<>>)>>
           ELSE UNCHANGED <<tasks, store, notifications, pageVars>>

\* click on the edit button of the row of taskId: handleEdit, then editTask.
\* The prompt is cancelled (it returns null, and newName is no answer) or
\* returns the text newName.
HandleEditId(taskId, cancelled, newName) ==
    /\ UNCHANGED <<sessionA, viewVars, envVars, formVars, otherPages>>
    /\ LET i == FindIndex(tasks, taskId)
       IN  IF i # 0 /\ ~cancelled /\ Trim(newName) # <<>> /\ newName # tasks[i].name
           THEN /\ tasks' = editTask(tasks, taskId, [name |-> Trim(newName)])
                /\ store' = saveTasks(Array(tasks'), store, quotaFull)
                /\ Rendered(tasks', currentFilter, currentSort)
                /\ notifications' = SaveNotes(quotaFull)
                      \o <<Notification("info", "Order updated successfully", <<>>)>>
           ELSE UNCHANGED <<tasks, store, notifications, pageVars>>

HandleEdit ==
    /\ sessionA = "live"
    /\ \E taskId \in TargetIds(tasks), cancelled \in BOOLEAN :
          \E newName \in (IF cancelled THEN {<<>>} ELSE PromptAnswers(tasks, taskId)) :
              HandleEditId(taskId, cancelled, newName)

\* click on the complete button of the row of taskId: markAsCompleted
CompleteId(taskId) ==
    /\ UNCHANGED <<sessionA, viewVars, envVars, formVars, otherPages>>
    /\ tasks' = markAsCompleted(tasks, taskId, now)
    /\ IF tasks' # tasks
       THEN /\ store' = saveTasks(Array(tasks'), store, quotaFull)
            /\ Rendered(tasks', currentFilter, currentSort)
            /\ notifications' = SaveNotes(quotaFull)
                  \o <<Notification("success", "Order delivered",
                                    tasks[FindIndex(tasks, taskId)].name)>>
       ELSE UNCHANGED <<store, notifications, pageVars>>

Complete ==
    /\ sessionA = "live"
    /\ \E taskId \in TargetIds(tasks) : CompleteId(taskId)

\* A deleteTask that does not look at the answer to confirm().
DeleteIdUnconfirmed(taskId, confirmed) ==
    /\ UNCHANGED <<sessionA, viewVars, envVars, formVars, otherPages>>
    /\ tasks' = deleteTask(tasks, taskId)
    /\ store' = saveTasks(Array(tasks'), store, quotaFull)
    /\ Rendered(tasks', currentFilter, currentSort)
    /\ notifications' = SaveNotes(quotaFull)
          \o <<Notification("warning", "Order deleted", <<>>)>>

\* click on the delete button of the row of taskId: deleteTask, with the
\* answer to confirm()
DeleteId(taskId, confirmed) ==
    /\ UNCHANGED <<sessionA, viewVars, envVars, formVars, otherPages>>
    /\ IF confirmed
       THEN /\ tasks' = deleteTask(tasks, taskId)
            /\ store' = saveTasks(Array(tasks'), store, quotaFull)
            /\ Rendered(tasks', currentFilter, currentSort)
            /\ notifications' = SaveNotes(quotaFull)
                  \o <<Notification("warning", "Order deleted", <<>>)>>
       ELSE UNCHANGED <<tasks, store, notifications, pageVars>>

Delete ==
    /\ sessionA = "live"
    /\ \E taskId \in TargetIds(tasks), confirmed \in BOOLEAN : DeleteId(taskId, confirmed)

\* click on the clear-all button, with the answer to confirm()
ClearAllConfirm(confirmed) ==
    /\ UNCHANGED <<sessionA, viewVars, envVars, formVars, otherPages>>
    /\ IF Len(tasks) = 0
       THEN /\ notifications' = <<Notification("info", "No orders to clear", <<>>)>>
            /\ UNCHANGED <<tasks, store, pageVars>>
       ELSE IF confirmed
            THEN /\ tasks' = <<>>
                 /\ store' = saveTasks(Array(tasks'), store, quotaFull)
                 /\ Rendered(tasks', currentFilter, currentSort)
                 /\ notifications' = SaveNotes(quotaFull)
                       \o <<Notification("warning", "All orders cleared", <<>>)>>
            ELSE UNCHANGED <<tasks, store, notifications, pageVars>>

ClearAll ==
    /\ sessionA = "live"
    /\ \E confirmed \in BOOLEAN : ClearAllConfirm(confirmed)

\* change of a status-filter radio button
SetFilter ==
    /\ sessionA = "live"
    /\ \E filter \in {"all", "pending", "completed"} : currentFilter' = filter
    /\ Rendered(tasks, currentFilter', currentSort)
    /\ UNCHANGED <<sessionA, tasks, store, currentSort, envVars, notifications, formVars, otherPages>>

\* A sort handler that sorts this.tasks itself.
SetSortInPlace ==
    /\ sessionA = "live"
    /\ \E sortKey \in {"due", "name", "priority"} : currentSort' = sortKey
    /\ tasks' = sortTasks(tasks, currentSort', tz)
    /\ Rendered(tasks', currentFilter, currentSort')
    /\ UNCHANGED <<sessionA, store, currentFilter, envVars, notifications, formVars, otherPages>>

\* change of a sort-by radio button
SetSort ==
    /\ sessionA = "live"
    /\ \E sortKey \in {"due", "name", "priority"} : currentSort' = sortKey
    /\ Rendered(tasks, currentFilter, currentSort')
    /\ UNCHANGED <<sessionA, tasks, store, currentFilter, envVars, notifications, formVars, otherPages>>

\* the interval timer fires: updateTimers
Sweep ==
    /\ sessionA = "live"
    /\ UNCHANGED <<sessionA, viewVars, envVars, formVars, otherPages>>
    /\ tasks' = updateTimers(tasks, now, tz)
    /\ IF tasks' # tasks
       THEN /\ store' = saveTasks(Array(tasks'), store, quotaFull)
            /\ notifications' = SweepNotes(tasks, 1, now, tz, quotaFull)
       ELSE UNCHANGED <<store, notifications>>
    /\ IF needsRefresh(tasks, now, tz) \/ \E i \in 1..Len(tasks') : tasks'[i].status = "pending"
       THEN Rendered(tasks', currentFilter, currentSort)
       ELSE UNCHANGED pageVars

\* Time passes; the alerts on the page expire.
Tick ==
    /\ \E d \in TickSteps :
        /\ now + d <= Epoch + MaxElapsed
        /\ now' = now + d
    /\ notifications' = <<>>
    /\ UNCHANGED <<sessionA, tasks, store, viewVars, tz, quotaFull, formVars, pageVars,
                   otherPages>>

\* The storage quota of the origin is reached, or space is freed.
QuotaChange ==
    /\ quotaFull' = ~quotaFull
    /\ UNCHANGED <<sessionA, tasks, store, viewVars, now, tz, notifications, formVars,
                   pageVars, otherPages>>

Next ==
    \/ PageLoad
    \/ Submit
    \/ SubmitDefault
    \/ HandleEdit
    \/ Complete
    \/ Delete
    \/ ClearAll
    \/ SetFilter
    \/ SetSort
    \/ Sweep
    \/ Tick

Spec == Init /\ [][Next]_vars

\* The order page with a storage whose quota is reached and freed while the
\* session runs.  The form is submitted with accepted drafts and the view
\* controls are left alone.
SubmitAccepted ==
    /\ sessionA = "live"
    /\ AddedCount(tasks) < MaxAddedQuota
    /\ \E draft \in AcceptedDrafts, r \in RandomIndexes : SubmitDraft(draft, r)

NextQuota ==
    \/ PageLoad
    \/ SubmitAccepted
    \/ HandleEdit
    \/ Complete
    \/ Delete
    \/ ClearAll
    \/ Sweep
    \/ Tick
    \/ QuotaChange

SpecQuota == Init /\ [][NextQuota]_vars

\* The order page with its interval timer and the clock under fairness:
\* setInterval fires updateTimers every minute for as long as the page lives.
NextSweep ==
    \/ PageLoad
    \/ Submit
    \/ Delete
    \/ Sweep
    \/ Tick

SpecSweep ==
    /\ Init
    /\ [][NextSweep]_vars
    /\ WF_vars(Sweep)
    /\ WF_vars(Tick)

-----------------------------------------------------------------------------
(* Two tabs.  A second tab of the browser runs the same code on the same    *)
(* localStorage entry; of its page only the TaskManager's collection is     *)
(* kept.  No code of the page listens to the storage event.                 *)

PageLoadB ==
    LET made == TaskManagerConstructor(store, now, quotaFull)
    IN  /\ sessionB' = IF made.outcome = "threw" THEN "crashed" ELSE "live"
        /\ tasksB' = made.tasks
        /\ store' = made.store
        /\ UNCHANGED <<orderPage, envVars, quoteVars, sitePages>>

SubmitB ==
    /\ sessionB = "live"
    /\ AddedCount(tasksB) < MaxAddedQuota
    /\ \E draft \in AcceptedDrafts, r \in RandomIndexes :
          tasksB' = addTask(tasksB, getFormData(draft, now, tz), now,
                            getRandomAthensLocation(r))
    /\ store' = saveTasks(Array(tasksB'), store, quotaFull)
    /\ UNCHANGED <<sessionB, orderPage, envVars, quoteVars, sitePages>>

CompleteB ==
    /\ sessionB = "live"
    /\ \E taskId \in TargetIds(tasksB) : tasksB' = markAsCompleted(tasksB, taskId, now)
    /\ store' = IF tasksB' # tasksB THEN saveTasks(Array(tasksB'), store, quotaFull)
                ELSE store
    /\ UNCHANGED <<sessionB, orderPage, envVars, quoteVars, sitePages>>

\* a confirmed delete in the second tab
DeleteB ==
    /\ sessionB = "live"
    /\ \E taskId \in TargetIds(tasksB) : tasksB' = deleteTask(tasksB, taskId)
    /\ store' = saveTasks(Array(tasksB'), store, quotaFull)
    /\ UNCHANGED <<sessionB, orderPage, envVars, quoteVars, sitePages>>

NextTabs ==
    \/ PageLoad
    \/ SubmitAccepted
    \/ Complete
    \/ Delete
    \/ PageLoadB
    \/ SubmitB
    \/ CompleteB
    \/ DeleteB
    \/ Tick

SpecTabs == Init /\ [][NextTabs]_vars

-----------------------------------------------------------------------------
(* The quote widget of the home page (contact.js) *)

\* Answers of the quotes API.
ApiQuotes ==
    { [content |-> "Stay hungry", author |-> "api author one"],
      [content |-> "Eat well", author |-> "api author two"] }

pizzaQuotes ==
    << [content |-> "Pizza is the answer, no matter the question.",
        author |-> "Unknown Pizza Lover"],
       [content |-> "Life is like a pizza, it's all about how you slice it.",
        author |-> "Pizza Proverb"],
       [content |-> "A day without pizza is like a day without sunshine.",
        author |-> "Italian Saying"],
       [content |-> "Happiness is a warm pizza fresh from the oven.",
        author |-> "Pizza Philosopher"],
       [content |-> "The best things in life are cheesy and delicious.",
        author |-> "Cheese Enthusiast"] >>

\* fetchMotivationalQuote has returned to its caller: initializeMotivationalQuotes
\* binds the refresh button, handleQuoteRefresh enables it again and shows a toast.
FetchReturns ==
    /\ quotePhase' = "idle"
    /\ quoteElapsed' = 0
    /\ quoteButton' = "enabled"
    /\ quoteToast' = IF quoteButton = "disabled" THEN TRUE ELSE quoteToast

\* useFallbackQuote, then the return of fetchMotivationalQuote
UseFallbackQuote ==
    /\ \E r \in 1..Len(pizzaQuotes) : quoteShown' = pizzaQuotes[r]
    /\ FetchReturns

\* DOMContentLoaded on a page with #quote-text: the first fetch starts.
QuoteLoad ==
    /\ quotePhase = "closed"
    /\ quotePhase' = "headers"
    /\ quoteElapsed' = 0
    /\ UNCHANGED <<quoteShown, quoteButton, quoteToast, orderPage, store, envVars, tabB, sitePages>>

\* click on the refresh button: handleQuoteRefresh disables it and fetches.
QuoteRefresh ==
    /\ quotePhase = "idle"
    /\ quoteButton = "enabled"
    /\ quoteButton' = "disabled"
    /\ quotePhase' = "headers"
    /\ quoteElapsed' = 0
    /\ UNCHANGED <<quoteShown, quoteToast, orderPage, store, envVars, tabB, sitePages>>

\* A second passes while the abort timer is armed.
QuoteSecond ==
    /\ quotePhase = "headers"
    /\ quoteElapsed < QuoteTimeoutSeconds
    /\ quoteElapsed' = quoteElapsed + 1
    /\ UNCHANGED <<quotePhase, quoteShown, quoteButton, quoteToast, orderPage, store,
                   envVars, tabB, sitePages>>

\* The abort timer fires: controller.abort() rejects the fetch.
QuoteAbort ==
    /\ quotePhase = "headers"
    /\ quoteElapsed = QuoteTimeoutSeconds
    /\ UseFallbackQuote
    /\ UNCHANGED <<orderPage, store, envVars, tabB, sitePages>>

\* The fetch rejects: network error.
QuoteNetworkError ==
    /\ quotePhase = "headers"
    /\ UseFallbackQuote
    /\ UNCHANGED <<orderPage, store, envVars, tabB, sitePages>>

\* The response headers arrive and the fetch resolves: the timer is cleared;
\* a status that is not OK throws, otherwise response.json() is awaited.
QuoteHeaders ==
    /\ quotePhase = "headers"
    /\ \E ok \in BOOLEAN :
          IF ok
          THEN /\ quotePhase' = "body"
               /\ quoteElapsed' = 0
               /\ UNCHANGED <<quoteShown, quoteButton, quoteToast>>
          ELSE UseFallbackQuote
    /\ UNCHANGED <<orderPage, store, envVars, tabB, sitePages>>

\* response.json() resolves: updateQuoteDisplay
QuoteBody ==
    /\ quotePhase = "body"
    /\ \E quoteData \in ApiQuotes : quoteShown' = quoteData
    /\ FetchReturns
    /\ UNCHANGED <<orderPage, store, envVars, tabB, sitePages>>

\* response.json() rejects: the body is cut off or is not JSON.
QuoteBodyError ==
    /\ quotePhase = "body"
    /\ UseFallbackQuote
    /\ UNCHANGED <<orderPage, store, envVars, tabB, sitePages>>

\* The toast hides after its duration.
QuoteToastHides ==
    /\ quoteToast
    /\ quoteToast' = FALSE
    /\ UNCHANGED <<quotePhase, quoteElapsed, quoteShown, quoteButton, orderPage, store,
                   envVars, tabB, sitePages>>

NextQuote ==
    \/ QuoteLoad
    \/ QuoteRefresh
    \/ QuoteSecond
    \/ QuoteAbort
    \/ QuoteNetworkError
    \/ QuoteHeaders
    \/ QuoteBody
    \/ QuoteBodyError
    \/ QuoteToastHides

\* Timers fire; the network owes nothing.
SpecQuote ==
    /\ Init
    /\ [][NextQuote]_vars
    /\ WF_vars(QuoteSecond)
    /\ WF_vars(QuoteAbort)

-----------------------------------------------------------------------------
(* The theme switch (contact.js), on each page that loads the script: the   *)
(* class 'dark-mode' of the body, the attribute data-theme, the checkbox    *)
(* #darkModeToggle; and the localStorage entry 'tomypizza-theme' the pages  *)
(* share.                                                                   *)

\* localStorage.getItem('tomypizza-theme') is 'dark', or is null and the
\* system prefers dark.
InitiallyDark == savedTheme = DOMString("dark") \/ (savedTheme = Null /\ prefersDark)

enableDarkMode(page) ==
    /\ darkMode' = [darkMode EXCEPT ![page] = TRUE]
    /\ dataTheme' = [dataTheme EXCEPT ![page] = "dark"]

disableDarkMode(page) ==
    /\ darkMode' = [darkMode EXCEPT ![page] = FALSE]
    /\ dataTheme' = [dataTheme EXCEPT ![page] = "light"]

\* DOMContentLoaded: initializeDarkMode on a new document, whose body has no
\* class 'dark-mode', no data-theme attribute and an unchecked switch.
initializeDarkMode(page) ==
    /\ themePage' = [themePage EXCEPT ![page] = "open"]
    /\ IF InitiallyDark
       THEN /\ enableDarkMode(page)
            /\ toggleChecked' = [toggleChecked EXCEPT ![page] = TRUE]
       ELSE /\ darkMode' = [darkMode EXCEPT ![page] = FALSE]
            /\ dataTheme' = [dataTheme EXCEPT ![page] = "unset"]
            /\ toggleChecked' = [toggleChecked EXCEPT ![page] = FALSE]
    /\ themeToast' = [themeToast EXCEPT ![page] = "none"]
    /\ UNCHANGED <<savedTheme, prefersDark>>
    /\ UNCHANGED <<orderPage, store, envVars, tabB, quoteVars, contactVars>>

\* change on #darkModeToggle: the browser has flipped the checkbox; the
\* handler applies the theme, then setItem, then the toast.  When setItem
\* throws, the handler ends there and the window's error listener shows its
\* own toast.
handleDarkModeToggle(page) ==
    /\ themePage[page] = "open"
    /\ toggleChecked' = [toggleChecked EXCEPT ![page] = ~toggleChecked[page]]
    /\ IF toggleChecked'[page] THEN enableDarkMode(page) ELSE disableDarkMode(page)
    /\ IF quotaFull
       THEN /\ UNCHANGED savedTheme
            /\ themeToast' = [themeToast EXCEPT ![page] = "An error occurred"]
       ELSE IF toggleChecked'[page]
            THEN /\ savedTheme' = DOMString("dark")
                 /\ themeToast' = [themeToast EXCEPT ![page] = "Dark mode enabled"]
            ELSE /\ savedTheme' = DOMString("light")
                 /\ themeToast' = [themeToast EXCEPT ![page] = "Light mode enabled"]
    /\ UNCHANGED <<themePage, prefersDark>>
    /\ UNCHANGED <<orderPage, store, envVars, tabB, quoteVars, contactVars>>

\* handleSystemThemeChange on one page: the class and the attribute after it.
SystemThemeApplied(page, matches) ==
    IF themePage[page] = "open" /\ savedTheme = Null
    THEN [dark |-> matches, attribute |-> IF matches THEN "dark" ELSE "light"]
    ELSE [dark |-> darkMode[page], attribute |-> dataTheme[page]]

ThemeLoad == \E page \in ThemePages : initializeDarkMode(page)

ThemeToggle == \E page \in ThemePages : handleDarkModeToggle(page)

\* The colour scheme of the operating system changes: the media query's
\* change event runs handleSystemThemeChange on every open page.
handleSystemThemeChange ==
    /\ prefersDark' = ~prefersDark
    /\ darkMode' = [page \in ThemePages |-> SystemThemeApplied(page, prefersDark').dark]
    /\ dataTheme' = [page \in ThemePages |-> SystemThemeApplied(page, prefersDark').attribute]
    /\ UNCHANGED <<themePage, savedTheme, toggleChecked, themeToast>>
    /\ UNCHANGED <<orderPage, store, envVars, tabB, quoteVars, contactVars>>

NextTheme ==
    \/ ThemeLoad
    \/ ThemeToggle
    \/ handleSystemThemeChange
    \/ QuotaChange

SpecTheme == Init /\ [][NextTheme]_vars

-----------------------------------------------------------------------------
(* The contact form (contact.js, class ContactForm).  In the value of the    *)
(* email input the chunks "@" and "." are those characters and no other     *)
(* chunk holds either.  The newsletter box is left as it is.                *)

\* A run of more than 500 non-whitespace characters, as one chunk.
LongRun == "a run of 501 characters"

\* What the user types into an input or selects, an input event each.
ContactInputs ==
    { <<"name", <<"Ana">>>>, <<"name", <<>>>>,
      <<"email", <<"ana", "@", "pizza", ".", "gr">>>>, <<"email", <<"ana">>>>,
      <<"subject", <<"order">>>>,
      <<"message", <<"Hello">>>>, <<"message", <<LongRun>>>> }

\* The sets of inputs that carry the attribute required: the form's markup
\* is not part of the sources, so each page load may find any of these.
RequiredChoices == SUBSET ContactFields

\* /^[^\s@]+@[^\s@]+\.[^\s@]+$/.test(email)
isValidEmail(email) ==
    /\ \A k \in 1..Len(email) : email[k] # WS
    /\ \E i, j \in 1..Len(email) :
          /\ email[i] = "@"
          /\ email[j] = "."
          /\ 1 < i
          /\ i + 1 < j
          /\ j < Len(email)
          /\ \A k \in 1..Len(email) : email[k] = "@" => k = i

\* value.length > 500
ExceedsMessageLimit(value) == \E k \in 1..Len(value) : value[k] = LongRun

\* ContactForm.validateField(field): its result; #email has the type email.
contactValidateField(field, value, required) ==
    /\ ~(field \in required /\ Trim(value) = <<>>)
    /\ ~(field = "email" /\ value # <<>> /\ ~isValidEmail(value))
    /\ ~(field = "message" /\ ExceedsMessageLimit(value))

\* validateForm: validateField on every required input
validateForm(values, required) ==
    \A field \in required : contactValidateField(field, values[field], required)

\* The inputs marked 'is-invalid' after validateField has run on `fields`.
ContactMarked(marked, fields, values, required) ==
    (marked \ fields)
        \cup {field \in fields : ~contactValidateField(field, values[field], required)}

\* ContactForm.getFormData() at clock reading t (ipAddress is not shown)
contactFormData(values, t) ==
    [name |-> values.name, email |-> values.email, subject |-> values.subject,
     message |-> values.message, newsletter |-> values.newsletter,
     timestamp |-> toISOString(t)]

formatSubject(subjectValue) ==
    IF subjectValue = <<"order">> THEN <<"Order", WS, "Issue">> ELSE subjectValue

\* truncateMessage(message, 100)
truncateMessage(message) ==
    IF ExceedsMessageLimit(message) THEN <<"the first 100 characters", "...">>
    ELSE message

\* populateConfirmationModal: the rows of the details table
populateConfirmationModal(formData) ==
    [kind |-> "details",
     Name |-> formData.name,
     Email |-> formData.email,
     Subject |-> formatSubject(formData.subject),
     Message |-> truncateMessage(formData.message),
     Newsletter |-> IF formData.newsletter THEN "Subscribed" ELSE "Not subscribed",
     Submitted |-> formData.timestamp]

\* DOMContentLoaded on the contact page: new ContactForm()
ContactLoad ==
    /\ contactPage = "closed"
    /\ contactPage' = "idle"
    /\ contactRequired' \in RequiredChoices
    /\ contactValues' = ContactDefaults
    /\ contactInvalid' = {}
    /\ validatedData' = Undefined
    /\ confirmation' = Hidden
    /\ contactNotice' = "none"
    /\ UNCHANGED <<orderPage, store, envVars, tabB, quoteVars, themeVars>>

\* input on a field, which stays enabled while a submission is being sent:
\* the listeners leave the field without 'is-invalid'.  The modal, while it
\* is shown, covers the form.
ContactInput ==
    /\ contactPage \in {"idle", "sending"}
    /\ confirmation = Hidden
    /\ \E input \in ContactInputs :
          /\ contactValues[input[1]] # input[2]
          /\ contactValues' = [contactValues EXCEPT ![input[1]] = input[2]]
          /\ contactInvalid' = contactInvalid \ {input[1]}
    /\ UNCHANGED <<contactPage, contactRequired, validatedData, confirmation, contactNotice>>
    /\ UNCHANGED <<orderPage, store, envVars, tabB, quoteVars, themeVars>>

\* blur on a field: validateField
ContactBlur ==
    /\ contactPage \in {"idle", "sending"}
    /\ confirmation = Hidden
    /\ \E field \in ContactFields :
          contactInvalid' = ContactMarked(contactInvalid, {field}, contactValues,
                                          contactRequired)
    /\ UNCHANGED <<contactPage, contactRequired, contactValues, validatedData,
                   confirmation, contactNotice>>
    /\ UNCHANGED <<orderPage, store, envVars, tabB, quoteVars, themeVars>>

\* submit, up to the await: validateForm; when it accepts, the submit button
\* is disabled and simulateApiCall started.
handleSubmit ==
    /\ contactPage = "idle"
    /\ confirmation = Hidden
    /\ contactInvalid' = ContactMarked(contactInvalid, contactRequired, contactValues,
                                       contactRequired)
    /\ IF validateForm(contactValues, contactRequired)
       THEN /\ contactPage' = "sending"
            /\ validatedData' = contactValues
            /\ UNCHANGED contactNotice
       ELSE /\ contactNotice' = "Please fill in all required fields correctly."
            /\ UNCHANGED <<contactPage, validatedData>>
    /\ UNCHANGED <<contactRequired, contactValues, confirmation>>
    /\ UNCHANGED <<orderPage, store, envVars, tabB, quoteVars, themeVars>>

\* The timer of simulateApiCall fires and handleSubmit goes on: getFormData,
\* the modal, form.reset(), resetFormValidation, the toast, the button.
simulateApiCallResolves ==
    /\ contactPage = "sending"
    /\ confirmation' = populateConfirmationModal(contactFormData(contactValues, now))
    /\ contactValues' = ContactDefaults
    /\ contactInvalid' = {}
    /\ contactNotice' = "Message sent successfully!"
    /\ contactPage' = "idle"
    /\ validatedData' = Undefined
    /\ UNCHANGED contactRequired
    /\ UNCHANGED <<orderPage, store, envVars, tabB, quoteVars, themeVars>>

\* click on Close or on Send Another: the modal hides.
ModalHide ==
    /\ confirmation # Hidden
    /\ confirmation' = Hidden
    /\ UNCHANGED <<contactPage, contactRequired, contactValues, contactInvalid,
                   validatedData, contactNotice>>
    /\ UNCHANGED <<orderPage, store, envVars, tabB, quoteVars, themeVars>>

NextContact ==
    \/ ContactLoad
    \/ ContactInput
    \/ ContactBlur
    \/ handleSubmit
    \/ simulateApiCallResolves
    \/ ModalHide

SpecContact == Init /\ [][NextContact]_vars

-----------------------------------------------------------------------------
(* Helpers of the properties *)

Range(seq) == {seq[i] : i \in 1..Len(seq)}

Count(x, seq) == Cardinality({i \in 1..Len(seq) : seq[i] = x})

IsPermutation(a, b) ==
    /\ Len(a) = Len(b)
    /\ \A x \in Range(a) \cup Range(b) : Count(x, a) = Count(x, b)

\* sub can be obtained from seq by deleting elements
RECURSIVE IsSubsequence(_, _)
IsSubsequence(sub, seq) ==
    IF sub = <<>> THEN TRUE
    ELSE IF seq = <<>> THEN FALSE
    ELSE IF Head(sub) = Head(seq) THEN IsSubsequence(Tail(sub), Tail(seq))
    ELSE IsSubsequence(sub, Tail(seq))

\* seq without its element at position i
RemoveAt(seq, i) == SubSeq(seq, 1, i - 1) \o SubSeq(seq, i + 1, Len(seq))

\* The text setItem stores for a collection.
Persisted(ts) == ToDOMString(JSONstringify(Array(ts)))

\* What a fresh page session holds after loading the text st.
Loaded(st) == TaskManagerConstructor(st, now, FALSE)

LastNotification ==
    IF notifications = <<>> THEN Notification("none", "none", <<>>)
    ELSE notifications[Len(notifications)]

-----------------------------------------------------------------------------
(* C1 *)

\* C1: a page load that finds no persisted entry leaves, when the write
\* succeeds, the serialization of the in-memory demo collection under the key.
C1_SeedIsPersisted ==
    [][(store = Null /\ ~quotaFull /\ PageLoad) => store' = Persisted(tasks')]_vars

-----------------------------------------------------------------------------
(* C2 *)

\* C2: saving any reachable collection and loading it in a fresh page session
\* yields the same collection, record for record and in order, the completion
\* timestamp absent exactly where it was absent.
C2_RoundTrip ==
    sessionA = "live" =>
        LET made == Loaded(saveTasks(Array(tasks), store, FALSE))
        IN  /\ made.outcome = "parsed"
            /\ made.tasks = tasks
            /\ \A i \in 1..Len(tasks) :
                  (made.tasks[i].completedAt = Undefined) <=> (tasks[i].completedAt = Undefined)

\* A session that loaded a saved collection holding an added record, a
\* record without completion timestamp and one with it.
C2_Witness ==
    /\ sessionA = "live"
    /\ notifications # <<>>
    /\ LastNotification.message = "Welcome! demo orders loaded"
    /\ AddedCount(tasks) > 0
    /\ store = Persisted(tasks)
    /\ \E i, j \in 1..Len(tasks) :
          tasks[i].completedAt = Undefined /\ tasks[j].completedAt # Undefined

-----------------------------------------------------------------------------
(* C3 *)

\* The collection a fresh session loads after the step holds the old records
\* and one more.
OneNewRecord(loaded) ==
    /\ Len(loaded) = Len(tasks) + 1
    /\ \A i \in 1..Len(tasks) : loaded[i] = tasks[i]

-----------------------------------------------------------------------------
(* C4 *)

\* C4: no two records of the collection have the same identifier.
C4_UniqueIds ==
    sessionA = "live" =>
        \A i, j \in 1..Len(tasks) : i # j => tasks[i].id # tasks[j].id

-----------------------------------------------------------------------------
(* C5 *)

\* C5: every record has a completion timestamp exactly when its status is
\* completed.
C5_CompletedIffStamped ==
    sessionA = "live" =>
        \A i \in 1..Len(tasks) :
            (tasks[i].completedAt # Undefined) <=> (tasks[i].status = "completed")

\* A collection with a record completed at the present clock reading after
\* the clock advanced, a pending added record and an edited record.
C5_Witness ==
    /\ sessionA = "live"
    /\ now > Epoch
    /\ \E i, j, k \in 1..Len(tasks) :
          /\ tasks[i].status = "completed" /\ tasks[i].completedAt = toISOString(now)
          /\ tasks[j].status = "pending" /\ tasks[j].id >= Epoch
          /\ tasks[k].name = <<"Special">>

-----------------------------------------------------------------------------
(* C6 *)

\* C6: Complete on an existing record leaves it completed; a further call, at
\* this or any later clock reading, changes nothing; and Complete on a record
\* already completed changes neither the collection nor the persisted entry.
C6_CompleteIdempotent ==
    [][(sessionA = "live" /\ sessionA' = "live") =>
         \A taskId \in TargetIds(tasks) :
            (CompleteId(taskId) /\ FindIndex(tasks, taskId) # 0)
            => LET i == FindIndex(tasks, taskId)
               IN  /\ tasks'[i].status = "completed"
                   /\ \A later \in now..(Epoch + MaxElapsed) :
                         markAsCompleted(tasks', taskId, later) = tasks'
                   /\ tasks[i].status = "completed"
                         => (tasks' = tasks /\ store' = store)]_vars

\* A record the user can press Complete on was completed at an earlier clock
\* reading: the case of the second call.
C6_Witness ==
    /\ sessionA = "live"
    /\ \E taskId \in TargetIds(tasks) :
          LET i == FindIndex(tasks, taskId)
          IN  /\ i # 0
              /\ tasks[i].status = "completed"
              /\ tasks[i].completedAt = toISOString(Epoch)
              /\ now > Epoch

-----------------------------------------------------------------------------
(* C7 *)

\* C7: a confirmed Delete removes exactly the one record with the identifier
\* and keeps the others in order; of an identifier not in the collection it
\* leaves the collection as it is.
C7_DeleteRemovesOne ==
    [][(sessionA = "live" /\ sessionA' = "live") =>
         \A taskId \in TargetIds(tasks) :
            DeleteId(taskId, TRUE)
            => LET i == FindIndex(tasks, taskId)
               IN  IF i # 0 THEN tasks' = RemoveAt(tasks, i) ELSE tasks' = tasks]_vars

-----------------------------------------------------------------------------
(* C8 *)

\* C8: the pending and the completed filter results are disjoint, together
\* hold every record, each keeps the collection's order, and the filter
\* `all` returns the collection as it is.
C8_FilterPartition ==
    sessionA = "live" =>
        LET pending == filterTasks(tasks, "pending")
            completed == filterTasks(tasks, "completed")
        IN  /\ Range(pending) \cap Range(completed) = {}
            /\ Range(pending) \cup Range(completed) = Range(tasks)
            /\ Len(pending) + Len(completed) = Len(tasks)
            /\ IsSubsequence(pending, tasks)
            /\ IsSubsequence(completed, tasks)
            /\ filterTasks(tasks, "all") = tasks

\* The view filters a collection that holds pending and completed records,
\* one of them added.
C8_Witness ==
    /\ sessionA = "live"
    /\ currentFilter = "pending"
    /\ AddedCount(tasks) > 0
    /\ filterTasks(tasks, currentFilter) # <<>>
    /\ filterTasks(tasks, "completed") # <<>>
    /\ Len(filterTasks(tasks, currentFilter)) < Len(tasks)

-----------------------------------------------------------------------------
(* C9 *)

\* C9: the sort by due returns a permutation of its input in which no
\* record's due instant is later than the next record's; the inputs are the
\* views of every reachable collection.
C9_SortByDue ==
    sessionA = "live" =>
        \A filter \in {"all", "pending", "completed"} :
            LET input == filterTasks(tasks, filter)
                output == sortTasks(input, "due", tz)
            IN  /\ IsPermutation(output, input)
                /\ \A i \in 1..(Len(output) - 1) :
                      DateParse(output[i].due, tz) <= DateParse(output[i + 1].due, tz)

\* The view sorts by due a collection that is not in due order and in which
\* a form-made due and a demo due compare differently as instants and as
\* printed readings.
C9_Witness ==
    /\ sessionA = "live"
    /\ currentSort = "due"
    /\ sortTasks(tasks, "due", tz) # tasks
    /\ \E i, j \in 1..Len(tasks) :
          /\ DateParse(tasks[i].due, tz) < DateParse(tasks[j].due, tz)
          /\ tasks[i].due.wall > tasks[j].due.wall

-----------------------------------------------------------------------------
(* C10 *)

\* C10: one sweep completes, with the sweep time as completion timestamp,
\* every pending record due more than the grace period ago, and leaves every
\* other record as it is.
C10_SweepCompletesOverdue ==
    [][(sessionA = "live" /\ sessionA' = "live" /\ Sweep)
       => /\ Len(tasks') = Len(tasks)
          /\ \A i \in 1..Len(tasks) :
                IF /\ tasks[i].status = "pending"
                   /\ now - DateParse(tasks[i].due, tz) > GracePeriod
                THEN tasks'[i] = [tasks[i] EXCEPT !.status = "completed",
                                                  !.completedAt = toISOString(now)]
                ELSE tasks'[i] = tasks[i]]_vars

-----------------------------------------------------------------------------
(* C11 *)

\* C11: a submit of the order form whose name is empty or holds only
\* whitespace changes neither the collection nor the persisted entry and
\* leaves the name field marked invalid.
C11_BlankNameRejected ==
    [][\A draft \in Drafts, r \in RandomIndexes :
          (sessionA = "live" /\ sessionA' = "live" /\ Trim(draft.name) = <<>>
             /\ SubmitDraft(draft, r))
          => /\ tasks' = tasks
             /\ store' = store
             /\ "task-name" \in isInvalid']_vars

\* A submit with a blank name has marked the name field, and only it, in a
\* session whose collection holds an added record.
C11_Witness ==
    /\ sessionA = "live"
    /\ isInvalid = {"task-name"}
    /\ AddedCount(tasks) > 0
    /\ store = Persisted(tasks)

-----------------------------------------------------------------------------
(* C14 *)

\* C14: editTask of an identifier not in the collection returns the
\* collection as it is, and an edit of such an identifier changes neither the
\* collection nor the persisted entry; an edit that editTask applies replaces
\* the record found for the identifier, at its position, by the record with
\* the given name and every other member kept, leaves every other record as
\* it is and, the write succeeding, persists the collection.
C14_EditFrame ==
    [][(sessionA = "live" /\ sessionA' = "live") =>
         /\ editTask(tasks, AbsentId, [name |-> <<"Special">>]) = tasks
         /\ (tasks' # tasks \/ store' # store) =>
               \A taskId \in TargetIds(tasks), cancelled \in BOOLEAN :
                  \A newName \in PromptAnswers(tasks, taskId) :
                     HandleEditId(taskId, cancelled, newName)
                     => LET i == FindIndex(tasks, taskId)
                        IN  /\ i # 0
                            /\ tasks[i].id = taskId
                            /\ Len(tasks') = Len(tasks)
                            /\ \A j \in 1..Len(tasks) : j # i => tasks'[j] = tasks[j]
                            /\ tasks'[i].name = Trim(newName)
                            /\ \A k \in Keys \ {"name"} : tasks'[i][k] = tasks[i][k]
                            /\ ~quotaFull => store' = Persisted(tasks')]_vars

\* An edit has just renamed an added record that has a description and is
\* not the last of the collection.
C14_Witness ==
    /\ sessionA = "live"
    /\ LastNotification.message = "Order updated successfully"
    /\ \E i \in 1..(Len(tasks) - 1) :
          /\ tasks[i].name = <<"Special">>
          /\ tasks[i].description # <<>>
          /\ tasks[i + 1].id >= Epoch
    /\ store = Persisted(tasks)

-----------------------------------------------------------------------------
(* C15 *)

\* C15: a confirmed clear-all of a non-empty collection, the write
\* succeeding, leaves the collection empty and the persisted entry the
\* serialization of the empty collection, from which a fresh page session
\* loads the empty collection and does not seed the demo orders.
C15_ClearAllPersistsEmpty ==
    [][(sessionA = "live" /\ sessionA' = "live" /\ Len(tasks) > 0 /\ ~quotaFull
          /\ ClearAllConfirm(TRUE))
       => /\ tasks' = <<>>
          /\ store' = Persisted(<<>>)
          /\ TaskManagerConstructor(store', now, FALSE).outcome = "parsed"
          /\ TaskManagerConstructor(store', now, FALSE).tasks = <<>>]_vars

\* A confirmed clear-all has just emptied the collection.
C15_Witness ==
    /\ sessionA = "live"
    /\ LastNotification.message = "All orders cleared"
    /\ tasks = <<>>
    /\ store = Persisted(<<>>)
    /\ Loaded(store).tasks = <<>>

-----------------------------------------------------------------------------
(* C16 *)

\* C16: a delete or a clear-all whose confirmation is declined changes
\* neither the collection nor the persisted entry.
C16_DeclinedChangesNothing ==
    [][(sessionA = "live" /\ sessionA' = "live") =>
         /\ \A taskId \in TargetIds(tasks) :
               DeleteId(taskId, FALSE) => (tasks' = tasks /\ store' = store)
         /\ ClearAllConfirm(FALSE) => (tasks' = tasks /\ store' = store)]_vars

\* A session in which the user can decline the delete of a record and the
\* clear-all: the collection holds an added record and is what is persisted.
C16_Witness ==
    /\ sessionA = "live"
    /\ \E taskId \in TargetIds(tasks) : FindIndex(tasks, taskId) # 0
    /\ Len(tasks) > 1
    /\ store = Persisted(tasks)

-----------------------------------------------------------------------------
(* C17 *)

\* C17: a submit of the order form whose due value is missing or is not
\* later than the moment of submission changes neither the collection nor
\* the persisted entry.
C17_NonFutureDueRejected ==
    [][\A draft \in Drafts, r \in RandomIndexes :
          (sessionA = "live" /\ sessionA' = "live"
             /\ (draft.dueIn = <<>> \/ draft.dueIn[1] <= 0)
             /\ SubmitDraft(draft, r))
          => (tasks' = tasks /\ store' = store)]_vars


-----------------------------------------------------------------------------
(* C12, C13 *)

\* A step of a handler that mutates the collection.
Mutation ==
    \/ SubmitAccepted
    \/ HandleEdit
    \/ Complete
    \/ Delete
    \/ ClearAll
    \/ Sweep

\* C12: at the end of every mutating handler (add, edit, complete, delete,
\* clear-all, a sweep that completes a record) whose write succeeds, the
\* persisted entry is the serialization of the whole in-memory collection.
C12_PersistedAfterMutation ==
    [][(sessionA = "live" /\ sessionA' = "live" /\ ~quotaFull /\ tasks' # tasks /\ Mutation)
       => store' = Persisted(tasks')]_vars

\* A sweep has just completed an added record and the collection, which
\* differs from what an earlier failed write left behind, is persisted.
C12_Witness ==
    /\ sessionA = "live"
    /\ ~quotaFull
    /\ now > Epoch
    /\ LastNotification.message = "Order delivered"
    /\ \E i \in 1..Len(tasks) :
          /\ tasks[i].id >= Epoch
          /\ tasks[i].completedAt = toISOString(now)
    /\ store = Persisted(tasks)

\* The in-memory collection after a step shows the change that the step's
\* last alert reports.
AppliedInMemory ==
    LET last == notifications'[Len(notifications')].message
        completed(ts) == Len(SelectSeq(ts, LAMBDA task : task.status = "completed"))
    IN  CASE last = "Order added" ->
                /\ Len(tasks') = Len(tasks) + 1
                /\ SubSeq(tasks', 1, Len(tasks)) = tasks
          [] last = "Order updated successfully" ->
                /\ Len(tasks') = Len(tasks)
                /\ \E i \in 1..Len(tasks) :
                      tasks' = [tasks EXCEPT ![i].name = tasks'[i].name]
          [] last = "Order delivered" ->
                /\ Len(tasks') = Len(tasks)
                /\ completed(tasks') > completed(tasks)
          [] last = "Order deleted" -> IsSubsequence(tasks', tasks)
          [] last = "All orders cleared" -> tasks' = <<>>
          [] OTHER -> FALSE

\* C13: a mutating handler whose write fails leaves the persisted entry as it
\* was, shows the error alert, goes on to apply and report its mutation on
\* the in-memory collection and leaves the session running on it.
C13_FailedWriteKeepsMemory ==
    [][(sessionA = "live" /\ quotaFull /\ notifications' # notifications /\ Mutation
          /\ ~(Len(tasks) = 0 /\ ClearAll))
       => /\ sessionA' = "live"
          /\ store' = store
          /\ Head(notifications') = Notification("danger", "Error saving orders", <<>>)
          /\ Len(notifications') > 1
          /\ AppliedInMemory]_vars

\* After a failed write the session goes on with a collection the persisted
\* entry does not hold: a later delete has acted on the in-memory collection.
C13_Witness ==
    /\ sessionA = "live"
    /\ quotaFull
    /\ Len(notifications) = 2
    /\ notifications[1].message = "Error saving orders"
    /\ notifications[2].message = "Order deleted"
    /\ store # Persisted(tasks)
    /\ store.kind = "json"
    /\ Len(store.items) > Len(tasks) + 1

-----------------------------------------------------------------------------
(* C18 *)

\* C18: with two tabs on the same entry, a mutation in one tab leaves the
\* persisted entry the serialization of that tab's whole collection and
\* changes neither the other tab's collection nor its alerts.
C18_LastWriterWins ==
    [][/\ (sessionB = "live" /\ sessionB' = "live" /\ tasksB' # tasksB
             /\ (SubmitB \/ CompleteB \/ DeleteB))
          => /\ store' = Persisted(tasksB')
             /\ tasks' = tasks
             /\ notifications' = notifications
       /\ (sessionA = "live" /\ sessionA' = "live" /\ tasks' # tasks
             /\ (SubmitAccepted \/ Complete \/ Delete))
          => /\ store' = Persisted(tasks')
             /\ tasksB' = tasksB]_vars

\* The second tab has written last: the entry holds its collection, and a
\* record the first tab added and persisted after the second tab had loaded
\* is in the first tab's collection only.
C18_Witness ==
    /\ sessionA = "live"
    /\ sessionB = "live"
    /\ store = Persisted(tasksB)
    /\ \E i \in 1..Len(tasks) :
          /\ tasks[i].id >= Epoch
          /\ \A j \in 1..Len(tasksB) : tasksB[j].name # tasks[i].name
    /\ \E j \in 1..Len(tasksB) : tasksB[j].id >= Epoch /\ tasksB[j].status = "completed"

-----------------------------------------------------------------------------
(* C19 *)

\* C19: every quote fetch eventually ends with a quote displayed, whatever
\* the network does.
C19_FetchEndsWithQuote ==
    (quotePhase \in {"headers", "body"})
        ~> (quotePhase = "idle" /\ quoteShown # Placeholder)

-----------------------------------------------------------------------------
(* C20 *)

\* The collection of the running page holds a pending record due more than
\* the grace period ago.
OverduePending ==
    /\ sessionA = "live"
    /\ \E i \in 1..Len(tasks) :
          /\ tasks[i].status = "pending"
          /\ now - DateParse(tasks[i].due, tz) > GracePeriod

\* C20: with the sweep timer firing and the clock advancing, a pending record
\* due more than the grace period ago does not stay pending: it is completed
\* (or deleted).
C20_OverdueEventuallyCompleted ==
    OverduePending ~> ~OverduePending

-----------------------------------------------------------------------------
(* C21 *)

-----------------------------------------------------------------------------
(* C22 *)

LowerPriority(p, q) ==
    <<p, q>> \in {<<"low", "medium">>, <<"low", "high">>, <<"medium", "high">>}

\* C22: in the sort by priority of the filtered view of any reachable
\* collection every record has one of the three priorities and no record
\* stands before a record of a higher priority.
C22_SortByPriority ==
    sessionA = "live" =>
        LET output == sortTasks(filterTasks(tasks, currentFilter), "priority", tz)
        IN  /\ \A i \in 1..Len(output) : output[i].priority \in {"high", "medium", "low"}
            /\ \A i, j \in 1..Len(output) :
                  i < j => ~LowerPriority(output[i].priority, output[j].priority)

\* The view sorts by priority a collection that is not in priority order
\* and holds an added record whose priority the form left out and a record
\* that was edited.
C22_Witness ==
    /\ sessionA = "live"
    /\ currentSort = "priority"
    /\ tasksList.kind = "rows"
    /\ tasksList # TaskRows(tasks)
    /\ \E i, j \in 1..Len(tasks) :
          /\ tasks[i].name = <<"Calzone">>
          /\ tasks[i].priority = "medium"
          /\ tasks[j].name = <<"Special">>

-----------------------------------------------------------------------------
(* C23 *)

\* C23: the value setDefaultDueDate writes into the due input denotes the
\* instant 30 minutes after the clock reading and passes validateField, and a
\* submit that leaves the due input as it was filled, made before that
\* reading has passed, does not mark the due input invalid.
C23_DefaultDuePassesValidation ==
    [][/\ (sessionA' = "live" /\ taskDue' # taskDue)
          => /\ DateParse(taskDue', tz) = now + DefaultDueMinutes
             /\ validateField("task-due", taskDue', now, tz)
       /\ (sessionA = "live" /\ sessionA' = "live" /\ taskDue.kind = "local"
             /\ now <= taskDue.wall /\ SubmitDefault)
          => "task-due" \notin isInvalid']_vars

-----------------------------------------------------------------------------
(* C24 *)

\* C24: on every page, a toggle of the switch leaves the saved preference
\* equal to the theme the page shows; a change of the system's colour scheme
\* leaves the theme of an open page as it is while a preference is saved and
\* is followed while none is; and a page load applies the saved preference,
\* whatever the system prefers, and follows the system when none is saved.
C24_ThemeIsSavedPreference ==
    [][\A page \in ThemePages :
          /\ handleDarkModeToggle(page)
                => savedTheme' = DOMString(IF darkMode'[page] THEN "dark" ELSE "light")
          /\ (handleSystemThemeChange /\ themePage[page] = "open")
                => darkMode'[page] = (IF savedTheme = Null THEN prefersDark'
                                      ELSE darkMode[page])
          /\ initializeDarkMode(page)
                => darkMode'[page] = (IF savedTheme = Null THEN prefersDark
                                      ELSE savedTheme = DOMString("dark"))]_vars

-----------------------------------------------------------------------------
(* C25 *)

\* C25: whenever the orders key holds a value, the value is the text of an
\* array, from which the constructor of the order page and loadData of the
\* analytics page both get a collection.
C25_StoredIsParseable ==
    store # Null =>
        /\ store.kind = "json"
        /\ TaskManagerConstructor(store, now, FALSE).outcome = "parsed"
        /\ AnalyticsLoadData(store).outcome = "parsed"

-----------------------------------------------------------------------------
(* C26 *)

\* Every completed record of the collection is, after the step, where it
\* was, completed and with its completion timestamp.
CompletedKept ==
    \A i \in 1..Len(tasks) :
        tasks[i].status = "completed"
        => /\ i <= Len(tasks')
           /\ tasks'[i].id = tasks[i].id
           /\ tasks'[i].status = "completed"
           /\ tasks'[i].completedAt = tasks[i].completedAt

\* C26: a step of the running page after which some completed record is no
\* longer where it was, completed and with its completion timestamp, is a
\* delete, a clear-all or a page load: an add, an edit, a complete, a sweep
\* and a change of filter or sort keep every completed record.
C26_CompletedIsAbsorbing ==
    [][(sessionA = "live" /\ sessionA' = "live" /\ tasks' # tasks /\ ~CompletedKept)
       => (Delete \/ ClearAll \/ PageLoad)]_vars

\* An added record that was completed at an earlier clock reading has just
\* been edited and is still completed, with the timestamp of its completion.
C26_Witness ==
    /\ sessionA = "live"
    /\ now > Epoch
    /\ LastNotification.message = "Order updated successfully"
    /\ \E i \in 1..Len(tasks) :
          /\ tasks[i].id >= Epoch
          /\ tasks[i].name = <<"Special">>
          /\ tasks[i].status = "completed"
          /\ tasks[i].completedAt = toISOString(Epoch)

-----------------------------------------------------------------------------
(* C27 *)

\* C27: when the simulated send ends, the confirmation shows the details of
\* the values validateForm accepted at the submit, and the values it is
\* built from pass validateForm.
C27_ConfirmationShowsValidated ==
    [][simulateApiCallResolves =>
         /\ confirmation' = populateConfirmationModal(contactFormData(validatedData, now))
         /\ validateForm(contactValues, contactRequired)]_vars

-----------------------------------------------------------------------------
(* C28 *)

\* C28: after every step of the running page every record has a name that
\* is not empty and has no whitespace at either end, and an edit whose prompt
\* is cancelled or returns an empty text, whitespace or the current name
\* changes neither the collection nor the persisted entry.
C28_NamesTrimmedNonEmpty ==
    [][(sessionA = "live" /\ sessionA' = "live") =>
         /\ \A i \in 1..Len(tasks') :
               tasks'[i].name # <<>> /\ Trim(tasks'[i].name) = tasks'[i].name
         /\ (tasks' # tasks \/ store' # store) =>
               \A taskId \in TargetIds(tasks), cancelled \in BOOLEAN :
                  \A newName \in PromptAnswers(tasks, taskId) :
                     (\/ cancelled
                      \/ Trim(newName) = <<>>
                      \/ (FindIndex(tasks, taskId) # 0
                            /\ newName = tasks[FindIndex(tasks, taskId)].name))
                     => ~HandleEditId(taskId, cancelled, newName)]_vars

\* The collection holds an added record that an edit has renamed, which the
\* user can edit again, and a record added with whitespace around its name.
C28_Witness ==
    /\ sessionA = "live"
    /\ \E taskId \in TargetIds(tasks) :
          /\ FindIndex(tasks, taskId) # 0
          /\ tasks[FindIndex(tasks, taskId)].name = <<"Special">>
    /\ \E i \in 1..Len(tasks) : tasks[i].name = <<"Calzone">>
    /\ store = Persisted(tasks)

-----------------------------------------------------------------------------
(* C29 *)

\* The number of order rows #tasks-list shows.
RowsShown == IF tasksList.kind = "rows" THEN Len(tasksList.rows) ELSE 0

\* C29: on the running page the order-count label shows the number of order
\* rows the list shows.
C29_LabelCountsRows ==
    sessionA = "live" => orderCount = OrdersLabel(RowsShown)

-----------------------------------------------------------------------------
(* C30 *)

\* C30: a change of the filter or of the sort selection leaves the
\* collection, the persisted entry and the alerts as they are, and the list
\* shows the view of that collection under the new selection.
C30_ViewChangeFrame ==
    [][(sessionA = "live" /\ sessionA' = "live"
          /\ (currentFilter' # currentFilter \/ currentSort' # currentSort)
          /\ (SetFilter \/ SetSort))
       => /\ tasks' = tasks
          /\ store' = store
          /\ notifications' = notifications
          /\ tasksList' = loadTasks(tasks, currentFilter', currentSort', tz)]_vars

\* The list shows the completed records by name, in an order that is not
\* the collection's, of a collection that holds an added record and is what
\* is persisted.
C30_Witness ==
    /\ sessionA = "live"
    /\ currentFilter = "completed"
    /\ currentSort = "name"
    /\ tasksList.kind = "rows"
    /\ tasksList # TaskRows(filterTasks(tasks, currentFilter))
    /\ AddedCount(tasks) > 0
    /\ store = Persisted(tasks)

====
